---- MODULE Spec2Model ----
(***************************************************************************)
(* Model of the HomeScreen component (src/screens/home.screen.tsx): the    *)
(* React state flags, the async handlers startRecording, stopRecording,    *)
(* sendAudioToWhisper, sendToGpt, speakText and the press handlers of the  *)
(* rendered controls.  Every await of a handler is a yield point; the      *)
(* code between two awaits is one atomic step of the event loop.           *)
(***************************************************************************)
EXTENDS Integers, Sequences, FiniteSets, TLC

\* ---- bounds of the model ------------------------------------------------
MaxPresses == 4
MaxTasks == 3

\* ---- program constants --------------------------------------------------
Retries == 3
GlobalDelay == 500

\* ---- value domains ------------------------------------------------------
Keys == {"", "sk-key"}
Transcripts == {"Hello", ""}
Responses == {"Hi there"}
NoText == "<none>"
Null == "<null>"
NoRecording == 0

NoticeKinds ==
  {"PermissionDenied", "PermissionError", "ConfigError", "StartFailed",
   "ProcessFailed", "RateLimit", "TranscribeFailed", "Timeout", "GptFailed"}

PermissionOutcomes == {"granted", "denied", "threw"}
WhisperOutcomes == {"ok", "r429", "err"}
GptOutcomes == {"ok", "malformed", "err"}

TaskIds == 1..MaxTasks

VARIABLES
  apiKey,        \* OPENAI_API_KEY read from the configuration
  text,          \* useState text
  isRecording,   \* useState isRecording
  loading,       \* useState loading
  recording,     \* useState recording (a session id, NoRecording = undefined)
  AIResponse,    \* useState AIResponse
  AISpeaking,    \* useState AISpeaking
  audioMode,     \* allowsRecordingIOS of the platform audio session
  active,        \* capture sessions created and not yet unloaded
  nextSession,   \* id of the next session Audio.Recording.createAsync makes
  utterances,    \* Speech.speak utterances whose onDone has not run yet
  alerts,        \* number of Alert.alert calls per notice
  tasks,         \* the running invocations of the async handlers
  lastTranscript,\* the transcript the Transcription Client returned last
  presses,       \* number of presses so far
  cycle,         \* number of the interaction cycle (stop presses so far + 1)
  sessions       \* per session id: the cycle whose startRecording created
                 \* it and the number of sendAudioToWhisper calls given its URI

vars == <<apiKey, text, isRecording, loading, recording, AIResponse,
          AISpeaking, audioMode, active, nextSession, utterances, alerts,
          tasks, lastTranscript, presses, cycle, sessions>>

flags == <<isRecording, loading, AIResponse, AISpeaking>>
recorder == <<recording, audioMode, active, nextSession>>
history == <<cycle, sessions>>

NoTask ==
  [kind |-> "none", pc |-> "free", cycle |-> 0, perm |-> "none",
   rec |-> NoRecording,
   uri |-> NoRecording, attempt |-> 0, posts |-> 0, outcomes |-> <<>>,
   waits |-> <<>>, notes |-> <<>>, respText |-> NoText,
   transcript |-> NoText, inputText |-> NoText, timer |-> "none",
   aborted |-> FALSE, gres |-> "none"]

\* ---- pure helpers -------------------------------------------------------
RECURSIVE Pow2(_)
Pow2(n) == IF n = 0 THEN 1 ELSE 2 * Pow2(n - 1)

KeyMissingNever(key) == FALSE
\* !OPENAI_API_KEY
KeyMissing(key) == key = ""

GrantedAlways(outcome) == TRUE
\* the granted field of the permission response
Granted(outcome) == outcome = "granted"

PermissionNotice(outcome) ==
  IF outcome = "denied" THEN "PermissionDenied" ELSE "PermissionError"

IsRateLimitAnyError(outcome) == outcome \in {"r429", "err"}
\* axios.isAxiosError(error) && error.response?.status === 429
IsRateLimit(outcome) == outcome = "r429"

IsLastAttemptNever(attempt, retries) == attempt = retries + 1
\* attempt === retries
IsLastAttempt(attempt, retries) == attempt = retries

BackoffTimeHalf(attempt) == Pow2(attempt - 1) * 1000
\* Math.pow(2, attempt) * 1000
BackoffTime(attempt) == Pow2(attempt) * 1000

\* if (transcript)
Truthy(t) == t \notin {Null, NoText, ""}

\* recording?.getURI()
GetURI(rec) == rec

Alert(kind) == alerts' = [alerts EXCEPT ![kind] = @ + 1]

Reusable(i) ==
  \/ tasks[i].pc = "free"
  \/ tasks[i].pc = "done" /\ tasks[i].timer # "armed"

HasSlot == \E i \in TaskIds : Reusable(i)
Slot == CHOOSE i \in TaskIds : Reusable(i) /\ \A j \in TaskIds : Reusable(j) => i <= j

\* ---- initial state ------------------------------------------------------
Init ==
  /\ apiKey \in Keys
  /\ text = ""
  /\ isRecording = FALSE
  /\ loading = FALSE
  /\ recording = NoRecording
  /\ AIResponse = FALSE
  /\ AISpeaking = FALSE
  /\ audioMode = "playback"
  /\ active = {}
  /\ nextSession = 1
  /\ utterances = 0
  /\ alerts = [k \in NoticeKinds |-> 0]
  /\ tasks = [i \in TaskIds |-> NoTask]
  /\ lastTranscript = NoText
  /\ presses = 0
  /\ cycle = 1
  /\ sessions = <<>>

\* ---- startRecording -----------------------------------------------------
\* The microphone control is rendered when !loading, !isRecording, !AIResponse.
PressMicrophone ==
  /\ UNCHANGED history
  /\ ~loading /\ ~isRecording /\ ~AIResponse
  /\ presses < MaxPresses
  /\ presses' = presses + 1
  /\ IF KeyMissing(apiKey)
       THEN /\ Alert("ConfigError")
            /\ UNCHANGED tasks
       ELSE /\ HasSlot
            /\ tasks' = [tasks EXCEPT ![Slot] =
                 [NoTask EXCEPT !.kind = "start", !.pc = "perm",
                                !.cycle = cycle]]
            /\ UNCHANGED alerts
  /\ UNCHANGED <<apiKey, text, flags, recorder, utterances, lastTranscript>>

\* Audio.requestPermissionsAsync() settles; getMicrophonePermission returns.
PermissionResult(i, outcome) ==
  /\ UNCHANGED history
  /\ tasks[i].kind = "start" /\ tasks[i].pc = "perm"
  /\ IF outcome # "threw" /\ Granted(outcome)
       THEN /\ tasks' = [tasks EXCEPT ![i].perm = outcome, ![i].pc = "mode"]
            /\ UNCHANGED alerts
       ELSE /\ Alert(PermissionNotice(outcome))
            /\ tasks' = [tasks EXCEPT ![i].perm = outcome, ![i].pc = "done",
                           ![i].notes = Append(@, PermissionNotice(outcome))]
  /\ UNCHANGED <<apiKey, text, flags, recorder, utterances, lastTranscript,
                 presses>>

\* Audio.setAudioModeAsync({allowsRecordingIOS: true}) settles.
SetRecordingMode(i, ok) ==
  /\ UNCHANGED history
  /\ tasks[i].kind = "start" /\ tasks[i].pc = "mode"
  /\ IF ok
       THEN /\ audioMode' = "recording"
            /\ isRecording' = TRUE
            /\ tasks' = [tasks EXCEPT ![i].pc = "create"]
            /\ UNCHANGED alerts
       ELSE /\ Alert("StartFailed")
            /\ tasks' = [tasks EXCEPT ![i].pc = "done",
                           ![i].notes = Append(@, "StartFailed")]
            /\ UNCHANGED <<audioMode, isRecording>>
  /\ UNCHANGED <<apiKey, text, loading, AIResponse, AISpeaking, recording,
                 active, nextSession, utterances, lastTranscript, presses>>

\* Audio.Recording.createAsync(...) settles.  expo-av prepares one recording
\* at a time: the call rejects while another session is still loaded.
CreateRecording(i, ok) ==
  /\ UNCHANGED cycle
  /\ tasks[i].kind = "start" /\ tasks[i].pc = "create"
  /\ ok => active = {}
  /\ IF ok
       THEN /\ active' = active \cup {nextSession}
            /\ recording' = nextSession
            /\ nextSession' = nextSession + 1
            /\ sessions' = Append(sessions,
                              [cycle |-> tasks[i].cycle, uploads |-> 0])
            /\ tasks' = [tasks EXCEPT ![i].pc = "done", ![i].rec = nextSession]
            /\ UNCHANGED alerts
       ELSE /\ Alert("StartFailed")
            /\ tasks' = [tasks EXCEPT ![i].pc = "done",
                           ![i].notes = Append(@, "StartFailed")]
            /\ UNCHANGED <<active, recording, nextSession, sessions>>
  /\ UNCHANGED <<apiKey, text, flags, audioMode, utterances, lastTranscript,
                 presses>>

\* ---- stopRecording ------------------------------------------------------
\* catch block of stopRecording
StopFailed(i) ==
  /\ Alert("ProcessFailed")
  /\ loading' = FALSE
  /\ tasks' = [tasks EXCEPT ![i].pc = "done",
                 ![i].notes = Append(@, "ProcessFailed")]

\* The stop control is rendered when !loading and isRecording.  The handler
\* closes over the value of recording of the render it was created in.
PressStop ==
  /\ cycle' = cycle + 1
  /\ UNCHANGED sessions
  /\ ~loading /\ isRecording
  /\ presses < MaxPresses
  /\ HasSlot
  /\ presses' = presses + 1
  /\ isRecording' = FALSE
  /\ loading' = TRUE
  /\ tasks' = [tasks EXCEPT ![Slot] =
       [NoTask EXCEPT !.kind = "stop", !.rec = recording, !.cycle = cycle,
          !.pc = IF recording = NoRecording THEN "restore" ELSE "unload"]]
  /\ UNCHANGED <<apiKey, text, AIResponse, AISpeaking, recorder, utterances,
                 alerts, lastTranscript>>

\* recording.stopAndUnloadAsync() settles.  expo-av rejects the call on a
\* recording that has already been unloaded, and unloads the recorder also
\* when stopping it fails.
StopAndUnload(i, ok) ==
  /\ UNCHANGED history
  /\ tasks[i].kind = "stop" /\ tasks[i].pc = "unload"
  /\ ok => tasks[i].rec \in active
  /\ active' = active \ {tasks[i].rec}
  /\ IF ok
       THEN /\ tasks' = [tasks EXCEPT ![i].pc = "restore"]
            /\ UNCHANGED <<alerts, loading>>
       ELSE StopFailed(i)
  /\ UNCHANGED <<apiKey, text, isRecording, AIResponse, AISpeaking, recording,
                 audioMode, nextSession, utterances, lastTranscript, presses>>

\* Audio.setAudioModeAsync({allowsRecordingIOS: false}) settles; then the URI
\* is read and sendAudioToWhisper is called.
RestoreMode(i, ok) ==
  /\ UNCHANGED cycle
  /\ tasks[i].kind = "stop" /\ tasks[i].pc = "restore"
  /\ IF ok
       THEN /\ audioMode' = "playback"
            /\ IF GetURI(tasks[i].rec) = NoRecording
                 THEN StopFailed(i) /\ UNCHANGED sessions
                 ELSE /\ tasks' = [tasks EXCEPT ![i].pc = "wdelay",
                                     ![i].uri = GetURI(tasks[i].rec)]
                      /\ sessions' = [sessions EXCEPT
                                        ![GetURI(tasks[i].rec)].uploads = @ + 1]
                      /\ UNCHANGED <<alerts, loading>>
       ELSE /\ StopFailed(i)
            /\ UNCHANGED <<audioMode, sessions>>
  /\ UNCHANGED <<apiKey, text, isRecording, AIResponse, AISpeaking, recording,
                 active, nextSession, utterances, lastTranscript, presses>>

\* ---- sendAudioToWhisper -------------------------------------------------
\* stopRecording after sendAudioToWhisper returned t
WhisperReturns(i, o, t, note) ==
  LET noted == IF note = "" THEN tasks[i].notes ELSE Append(tasks[i].notes, note)
  IN /\ IF note = "" THEN UNCHANGED alerts ELSE Alert(note)
     /\ IF Truthy(t)
          THEN /\ text' = t
               /\ lastTranscript' = t
               /\ tasks' = [tasks EXCEPT ![i].transcript = t, ![i].notes = noted,
                              ![i].outcomes = Append(@, o),
                              ![i].respText = IF o = "ok" THEN t ELSE @,
                              ![i].inputText = t, ![i].timer = "armed",
                              ![i].pc = "gdelay"]
               /\ UNCHANGED loading
          ELSE /\ loading' = FALSE
               /\ tasks' = [tasks EXCEPT ![i].transcript = t, ![i].notes = noted,
                              ![i].outcomes = Append(@, o),
                              ![i].respText = IF o = "ok" THEN t ELSE @,
                              ![i].pc = "done"]
               /\ UNCHANGED <<text, lastTranscript>>

\* await delay(globalDelay) ends; the loop starts with attempt = 1.
WhisperWarmupDone(i) ==
  /\ UNCHANGED history
  /\ tasks[i].pc = "wdelay"
  /\ tasks' = [tasks EXCEPT ![i].waits = Append(@, GlobalDelay),
                 ![i].attempt = 1, ![i].posts = @ + 1, ![i].pc = "wpost"]
  /\ UNCHANGED <<apiKey, text, flags, recorder, utterances, alerts,
                 lastTranscript, presses>>

\* axios.post to the transcription endpoint settles.
WhisperResponse(i, outcome, t) ==
  /\ UNCHANGED history
  /\ tasks[i].pc = "wpost"
  /\ IF outcome = "ok"
       THEN WhisperReturns(i, outcome, t, "")
       ELSE IF IsRateLimit(outcome)
         THEN IF IsLastAttempt(tasks[i].attempt, Retries)
                THEN WhisperReturns(i, outcome, Null, "RateLimit")
                ELSE /\ tasks' = [tasks EXCEPT ![i].pc = "wbackoff",
                                    ![i].outcomes = Append(@, outcome)]
                     /\ UNCHANGED <<text, loading, alerts, lastTranscript>>
         ELSE WhisperReturns(i, outcome, Null, "TranscribeFailed")
  /\ UNCHANGED <<apiKey, isRecording, AIResponse, AISpeaking, recorder,
                 utterances, presses>>

\* await delay(backoffTime) ends; attempt++ and the loop condition is tested.
WhisperBackoffDone(i) ==
  /\ UNCHANGED history
  /\ tasks[i].pc = "wbackoff"
  /\ IF tasks[i].attempt + 1 <= Retries
       THEN /\ tasks' = [tasks EXCEPT
                 ![i].waits = Append(@, BackoffTime(tasks[i].attempt)),
                 ![i].attempt = @ + 1, ![i].posts = @ + 1, ![i].pc = "wpost"]
            /\ UNCHANGED <<text, loading, alerts, lastTranscript>>
       ELSE /\ loading' = FALSE
            /\ tasks' = [tasks EXCEPT
                 ![i].waits = Append(@, BackoffTime(tasks[i].attempt)),
                 ![i].attempt = @ + 1, ![i].transcript = Null,
                 ![i].pc = "done"]
            /\ UNCHANGED <<text, alerts, lastTranscript>>
  /\ UNCHANGED <<apiKey, isRecording, AIResponse, AISpeaking, recorder,
                 utterances, presses>>

\* ---- sendToGpt ----------------------------------------------------------
\* the 500 ms warm-up of sendToGpt ends and the request is issued
GptWarmupDone(i) ==
  /\ UNCHANGED history
  /\ tasks[i].pc = "gdelay"
  /\ tasks' = [tasks EXCEPT ![i].pc = "gpost"]
  /\ UNCHANGED <<apiKey, text, flags, recorder, utterances, alerts,
                 lastTranscript, presses>>

SpeakTextMuted == UNCHANGED <<AISpeaking, utterances>>
\* speakText
SpeakText ==
  /\ AISpeaking' = TRUE
  /\ utterances' = utterances + 1

\* axios.post to the chat-completion endpoint settles before the timer fires.
GptResponse(i, outcome, r) ==
  /\ UNCHANGED history
  /\ tasks[i].pc = "gpost"
  /\ IF outcome = "ok"
       THEN /\ text' = r
            /\ AIResponse' = TRUE
            /\ loading' = FALSE
            /\ SpeakText
            /\ tasks' = [tasks EXCEPT ![i].timer = "cleared", ![i].gres = "ok",
                           ![i].pc = "done"]
            /\ UNCHANGED alerts
       ELSE /\ loading' = FALSE
            /\ Alert("GptFailed")
            /\ tasks' = [tasks EXCEPT
                 ![i].timer = IF outcome = "malformed" THEN "cleared" ELSE @,
                 ![i].gres = "error", ![i].pc = "done",
                 ![i].notes = Append(@, "GptFailed")]
            /\ UNCHANGED <<text, AIResponse, AISpeaking, utterances>>
  /\ UNCHANGED <<apiKey, isRecording, recorder, lastTranscript, presses>>

\* The 10 s timer of a sendToGpt call fires: abort, setLoading(false), the
\* timeout alert; a request still pending rejects and the catch block runs
\* before any other event.
TimeoutFires(i) ==
  /\ UNCHANGED history
  /\ tasks[i].timer = "armed"
  /\ tasks[i].pc \in {"gpost", "done"}
  /\ loading' = FALSE
  /\ IF tasks[i].pc = "gpost"
       THEN /\ alerts' = [alerts EXCEPT !["Timeout"] = @ + 1,
                                        !["GptFailed"] = @ + 1]
            /\ tasks' = [tasks EXCEPT ![i].timer = "fired",
                           ![i].aborted = TRUE, ![i].gres = "timeout",
                           ![i].pc = "done",
                           ![i].notes = @ \o <<"Timeout", "GptFailed">>]
       ELSE /\ Alert("Timeout")
            /\ tasks' = [tasks EXCEPT ![i].timer = "fired",
                           ![i].aborted = TRUE,
                           ![i].notes = Append(@, "Timeout")]
  /\ UNCHANGED <<apiKey, text, isRecording, AIResponse, AISpeaking, recorder,
                 utterances, lastTranscript, presses>>

\* ---- controls of the response view --------------------------------------
\* regenerate: onPress={() => sendToGpt(text)}, rendered when AIResponse
PressRegenerate ==
  /\ UNCHANGED history
  /\ AIResponse
  /\ presses < MaxPresses
  /\ HasSlot
  /\ presses' = presses + 1
  /\ tasks' = [tasks EXCEPT ![Slot] =
       [NoTask EXCEPT !.kind = "regen", !.inputText = text,
          !.timer = "armed", !.pc = "gdelay"]]
  /\ UNCHANGED <<apiKey, text, flags, recorder, utterances, alerts,
                 lastTranscript>>

\* replay: onPress={() => speakText(text)}, rendered when AIResponse
PressReplay ==
  /\ UNCHANGED history
  /\ AIResponse
  /\ presses < MaxPresses
  /\ presses' = presses + 1
  /\ SpeakText
  /\ UNCHANGED <<apiKey, text, isRecording, loading, AIResponse, recorder,
                 alerts, tasks, lastTranscript>>

\* back arrow, rendered when AIResponse
PressBack ==
  /\ UNCHANGED history
  /\ AIResponse
  /\ presses < MaxPresses
  /\ presses' = presses + 1
  /\ isRecording' = FALSE
  /\ AIResponse' = FALSE
  /\ text' = ""
  /\ UNCHANGED <<apiKey, loading, AISpeaking, recorder, utterances, alerts,
                 tasks, lastTranscript>>

\* onDone of a Speech.speak utterance
SpeechDone ==
  /\ UNCHANGED history
  /\ utterances > 0
  /\ utterances' = utterances - 1
  /\ AISpeaking' = FALSE
  /\ UNCHANGED <<apiKey, text, isRecording, loading, AIResponse, recorder,
                 alerts, tasks, lastTranscript, presses>>

\* ---- specification ------------------------------------------------------
Next ==
  \/ PressMicrophone
  \/ \E i \in TaskIds, o \in PermissionOutcomes : PermissionResult(i, o)
  \/ \E i \in TaskIds, ok \in BOOLEAN : SetRecordingMode(i, ok)
  \/ \E i \in TaskIds, ok \in BOOLEAN : CreateRecording(i, ok)
  \/ PressStop
  \/ \E i \in TaskIds, ok \in BOOLEAN : StopAndUnload(i, ok)
  \/ \E i \in TaskIds, ok \in BOOLEAN : RestoreMode(i, ok)
  \/ \E i \in TaskIds : WhisperWarmupDone(i)
  \/ \E i \in TaskIds, o \in WhisperOutcomes, t \in Transcripts :
       WhisperResponse(i, o, t)
  \/ \E i \in TaskIds : WhisperBackoffDone(i)
  \/ \E i \in TaskIds : GptWarmupDone(i)
  \/ \E i \in TaskIds, o \in GptOutcomes, r \in Responses : GptResponse(i, o, r)
  \/ \E i \in TaskIds : TimeoutFires(i)
  \/ PressRegenerate
  \/ PressReplay
  \/ PressBack
  \/ SpeechDone

Spec == Init /\ [][Next]_vars

\* ---- interaction states of the screen controller ------------------------
Idle == ~isRecording /\ ~loading /\ ~AIResponse /\ ~AISpeaking
Recording == isRecording /\ ~loading /\ ~AIResponse /\ ~AISpeaking
Processing == loading /\ ~isRecording /\ ~AISpeaking
ResponseReady == AIResponse /\ ~loading /\ ~isRecording /\ ~AISpeaking
Speaking == AIResponse /\ AISpeaking /\ ~loading /\ ~isRecording

WhisperPcs == {"wdelay", "wpost", "wbackoff"}
GptPcs == {"gdelay", "gpost"}
CallPending(i) == tasks[i].pc \in WhisperPcs \cup GptPcs

Count(seq, x) == Cardinality({k \in 1..Len(seq) : seq[k] = x})
AlertsAdded(kind) == alerts'[kind] - alerts[kind]
TotalAlertsAdded ==
  LET RECURSIVE Sum(_)
      Sum(S) == IF S = {} THEN 0
                ELSE LET k == CHOOSE k \in S : TRUE
                     IN AlertsAdded(k) + Sum(S \ {k})
  IN Sum(NoticeKinds)

\* ---- C1 -------------------------------------------------------------------
\* a press of regenerate starts a sendToGpt call in task i
RegenerateStarts(i) ==
  /\ tasks[i].pc \in {"free", "done"}
  /\ tasks'[i].kind = "regen" /\ tasks'[i].pc = "gdelay"

\* C1: whenever regenerate is pressed, the input text of the sendToGpt call
\* it starts is the transcript the Transcription Client returned for the
\* current cycle, and the recorder (session, recording, audio mode) is not
\* touched.
C1_RegenerateResubmitsTranscript ==
  [][\A i \in TaskIds : RegenerateStarts(i) =>
        /\ tasks'[i].inputText = lastTranscript
        /\ UNCHANGED recorder
        /\ \A j \in TaskIds : tasks'[j].kind \in {"start", "stop"} =>
                                tasks'[j] = tasks[j]]_vars

\* ---- C2 -------------------------------------------------------------------
\* C2: at most one call among sendAudioToWhisper / sendToGpt is pending in
\* every reachable state.
C2_AtMostOneRequestInFlight ==
  Cardinality({i \in TaskIds : CallPending(i)}) <= 1

\* ---- C3 -------------------------------------------------------------------
\* C3: the flags always encode exactly one of Idle, Recording, Processing,
\* ResponseReady, Speaking; isRecording and loading are never both true and
\* AISpeaking is never true while isRecording is true or AIResponse is false.
C3_ExactlyOneState ==
  /\ Idle \/ Recording \/ Processing \/ ResponseReady \/ Speaking
  /\ ~(isRecording /\ loading)
  /\ AISpeaking => (~isRecording /\ AIResponse)

\* ---- C4 -------------------------------------------------------------------
\* the request of the sendToGpt call of task i runs into the 10 s timer
TimesOut(i) == tasks[i].pc = "gpost" /\ tasks'[i].gres = "timeout"

\* C4: for every sendToGpt call (from stopRecording or regenerate) whose
\* request does not resolve within 10 s, the request is aborted, a timeout
\* notice is recorded and the state is Idle afterwards.
C4_TimeoutReturnsToIdle ==
  [][\A i \in TaskIds : TimesOut(i) =>
        /\ tasks'[i].aborted
        /\ AlertsAdded("Timeout") = 1
        /\ ~isRecording' /\ ~loading' /\ ~AIResponse']_vars

\* ---- C5 -------------------------------------------------------------------
\* the sendToGpt call of task i fails (error or timeout)
GptFails(i) ==
  /\ tasks[i].pc = "gpost"
  /\ tasks'[i].pc = "done" /\ tasks'[i].gres \in {"error", "timeout"}

\* C5: a failed sendToGpt call surfaces exactly one notice: the timeout
\* notice when the timer expired, the generic notice otherwise.
C5_OneNoticePerFailure ==
  [][\A i \in TaskIds : GptFails(i) =>
        /\ TotalAlertsAdded = 1
        /\ tasks'[i].gres = "timeout" =>
             (AlertsAdded("Timeout") = 1 /\ AlertsAdded("GptFailed") = 0)
        /\ tasks'[i].gres = "error" =>
             (AlertsAdded("GptFailed") = 1 /\ AlertsAdded("Timeout") = 0)]_vars

\* ---- C6 -------------------------------------------------------------------
\* C6: when the endpoint answers 429, 429, success, sendAudioToWhisper has
\* waited 500 ms, then 2000 ms, then 4000 ms, has made exactly 3 uploads,
\* has surfaced no notice and returns the text of the third response.
C6_BackoffThenSuccess ==
  \A i \in TaskIds :
    (tasks[i].kind = "stop" /\ tasks[i].outcomes = <<"r429", "r429", "ok">>) =>
      /\ tasks[i].waits = <<GlobalDelay, 2000, 4000>>
      /\ tasks[i].posts = 3
      /\ Count(tasks[i].notes, "RateLimit") = 0
      /\ Count(tasks[i].notes, "TranscribeFailed") = 0
      /\ tasks[i].transcript = tasks[i].respText
      /\ tasks[i].transcript \in Transcripts

C6_Witness ==
  \E i \in TaskIds :
    /\ tasks[i].outcomes = <<"r429", "r429", "ok">>
    /\ tasks[i].transcript = "Hello"
    /\ tasks[i].pc = "gdelay"

\* ---- C7 -------------------------------------------------------------------
\* C7: sendAudioToWhisper makes at most 3 uploads; after three 429 answers
\* it has returned null with exactly one rate-limit notice, no wait after
\* the third 429 and no fourth upload.
C7_BoundedRetry ==
  \A i \in TaskIds :
    /\ tasks[i].posts <= 3
    /\ Len(tasks[i].outcomes) <= 3
    /\ tasks[i].outcomes = <<"r429", "r429", "r429">> =>
         /\ tasks[i].pc = "done"
         /\ tasks[i].transcript = Null
         /\ tasks[i].notes = <<"RateLimit">>
         /\ tasks[i].waits = <<GlobalDelay, 2000, 4000>>
         /\ tasks[i].posts = 3

C7_Witness ==
  \E i \in TaskIds :
    /\ tasks[i].outcomes = <<"r429", "r429", "r429">>
    /\ tasks[i].pc = "done"
    /\ alerts["RateLimit"] = 1

\* ---- C8 -------------------------------------------------------------------
\* C8: once an upload fails with an error other than 429, no further upload
\* and no wait follow, exactly one generic transcription notice is
\* surfaced, sendAudioToWhisper returns null and sendToGpt is not called by
\* that stopRecording.
C8_NoRetryOnOtherErrors ==
  \A i \in TaskIds :
    Count(tasks[i].outcomes, "err") > 0 =>
      /\ tasks[i].outcomes[Len(tasks[i].outcomes)] = "err"
      /\ Count(tasks[i].outcomes, "err") = 1
      /\ tasks[i].posts = Len(tasks[i].outcomes)
      /\ Len(tasks[i].waits) = Len(tasks[i].outcomes)
      /\ tasks[i].notes = <<"TranscribeFailed">>
      /\ tasks[i].pc = "done"
      /\ tasks[i].transcript = Null
      /\ tasks[i].inputText = NoText /\ tasks[i].timer = "none"

C8_Witness ==
  \E i \in TaskIds :
    /\ tasks[i].outcomes = <<"r429", "err">>
    /\ tasks[i].pc = "done"
    /\ ~loading

\* ---- C9 -------------------------------------------------------------------
\* C9: with no credential, presses of the microphone never request
\* permission, never configure the audio mode, never open a session and
\* never leave Idle; each press records a configuration notice.
C9_NoCredentialNoRecording ==
  apiKey = "" =>
    /\ Idle
    /\ \A i \in TaskIds : tasks[i] = NoTask
    /\ audioMode = "playback"
    /\ active = {} /\ recording = NoRecording /\ nextSession = 1
    /\ alerts["ConfigError"] = presses

C9_Witness ==
  /\ apiKey = ""
  /\ presses = 2
  /\ alerts["ConfigError"] = 2

\* ---- C10 ------------------------------------------------------------------
\* the permission request of task i settles as denied or throws
PermissionRefused(i) ==
  /\ tasks[i].kind = "start" /\ tasks[i].pc = "perm"
  /\ tasks'[i].perm \in {"denied", "threw"}

\* C10: when the permission request is denied or throws, one notice is
\* surfaced, startRecording ends, no session is created and the flags stay
\* as they are; isRecording becomes true only in a startRecording whose
\* permission request returned granted.
C10_PermissionGatesRecording ==
  [][/\ \A i \in TaskIds : PermissionRefused(i) =>
          /\ tasks'[i].pc = "done"
          /\ TotalAlertsAdded = 1
          /\ AlertsAdded(PermissionNotice(tasks'[i].perm)) = 1
          /\ UNCHANGED <<flags, recorder>>
     /\ (~isRecording /\ isRecording') =>
          \E i \in TaskIds : /\ tasks[i].kind = "start"
                             /\ tasks[i].perm = "granted"
                             /\ tasks[i].pc = "mode"
                             /\ tasks'[i].pc = "create"
     /\ \A i \in TaskIds : tasks'[i].pc \in {"mode", "create"} =>
                             tasks'[i].perm = "granted"]_vars

C10_Witness ==
  \E i \in TaskIds :
    /\ tasks[i].perm = "denied" /\ tasks[i].pc = "done"
    /\ tasks[i].notes = <<"PermissionDenied">>
    /\ Idle /\ active = {}

\* ---- C11 ------------------------------------------------------------------
\* C11: while a sendToGpt call (from stopRecording or regenerate) has not
\* returned, loading is true (the state is Processing, so the controls of
\* Idle and ResponseReady are not rendered).
C11_GptInFlightIsProcessing ==
  \A i \in TaskIds : tasks[i].pc \in GptPcs => loading

\* ---- C12 ------------------------------------------------------------------
\* startRecording of task i ends in its catch block
StartFails(i) ==
  /\ tasks[i].kind = "start" /\ tasks[i].pc \in {"mode", "create"}
  /\ tasks'[i].pc = "done"
  /\ tasks'[i].notes = <<"StartFailed">>

\* C12: when setAudioModeAsync or createAsync throws in startRecording, a
\* notice is surfaced and when startRecording returns isRecording is false
\* and no session is active.
C12_StartFailureResetsToIdle ==
  [][\A i \in TaskIds : StartFails(i) =>
        /\ AlertsAdded("StartFailed") = 1
        /\ ~isRecording'
        /\ active' = {}]_vars

\* ---- C13 ------------------------------------------------------------------
\* C13: a stopRecording that ends without a generated response (the state
\* goes back from Processing to Idle) has surfaced at least one notice.
C13_NoSilentReset ==
  \A i \in TaskIds :
    (tasks[i].kind = "stop" /\ tasks[i].pc = "done" /\ tasks[i].gres # "ok") =>
      Len(tasks[i].notes) >= 1

\* ---- C15 ------------------------------------------------------------------
\* C15: the timer of a sendToGpt call whose request has returned or failed
\* with a non-timeout error never fires afterwards.
C15_NoTimerAfterResolve ==
  \A i \in TaskIds :
    tasks[i].gres \in {"ok", "error"} => tasks[i].timer # "fired"

\* ---- C14 ------------------------------------------------------------------
StateName ==
  CASE Idle -> "Idle"
    [] Recording -> "Recording"
    [] Processing -> "Processing"
    [] ResponseReady -> "ResponseReady"
    [] Speaking -> "Speaking"
    [] OTHER -> "None"

\* a cycle with the credential present in which the user has pressed only the
\* microphone and then stop, and nothing has failed so far
CleanCycle ==
  /\ apiKey # ""
  /\ \A k \in NoticeKinds : alerts[k] = 0
  /\ \A i \in TaskIds \ {1} : tasks[i] = NoTask
  /\ presses <= 2
  /\ presses = 2 => tasks[1].kind = "stop"
  /\ tasks[1].transcript # ""

ClaimedOrder ==
  {<<"Idle", "Recording">>, <<"Recording", "Processing">>,
   <<"Processing", "ResponseReady">>, <<"ResponseReady", "Speaking">>,
   <<"Speaking", "ResponseReady">>}

ObservedOrder ==
  {<<"Idle", "Recording">>, <<"Recording", "Processing">>,
   <<"Processing", "Speaking">>, <<"Speaking", "ResponseReady">>}

Unloading == \E i \in TaskIds : tasks[i].kind = "stop" /\ tasks[i].pc = "unload"

\* C16: at most one capture session is active, and no session is active in
\* Idle, Processing or ResponseReady (a session that stopRecording is still
\* unloading is not counted).
C16_SessionsEndWithRecording ==
  /\ Cardinality(active) <= 1
  /\ ((Idle \/ Processing \/ ResponseReady) /\ ~Unloading) => active = {}

\* ---- C17 ------------------------------------------------------------------
\* C17: the URI stopRecording passes to sendAudioToWhisper belongs to the
\* session started in the same cycle, and no artifact is passed twice.
C17_ArtifactTranscribedOnce ==
  /\ \A i \in TaskIds :
       (tasks[i].kind = "stop" /\ tasks[i].uri # NoRecording) =>
         sessions[tasks[i].uri].cycle = tasks[i].cycle
  /\ \A k \in 1..Len(sessions) : sessions[k].uploads <= 1

\* ---- C18 ------------------------------------------------------------------
\* isRecording, loading and AIResponse are all false
IdleFlags == ~isRecording /\ ~loading /\ ~AIResponse

\* a startRecording begun by a press of the microphone enters Recording
MicrophoneStartsRecording ==
  \E i \in TaskIds : /\ tasks[i].kind = "start" /\ tasks[i].pc = "mode"
                     /\ tasks'[i].pc = "create"

\* C18: Idle is left only by the microphone control: while the flags are
\* idle, AIResponse stays false and an empty text stays empty unless a
\* startRecording enters Recording.
C18_IdleLeftOnlyByMicrophone ==
  [][IdleFlags => \/ IdleFlags' /\ (text = "" => text' = "")
                  \/ MicrophoneStartsRecording]_vars

\* ---- C20 ------------------------------------------------------------------
\* stopRecording of task i is past its capture teardown: stopAndUnloadAsync
\* threw, or the audio mode call returned and the URI is passed on
StopTeardownEnds(i) ==
  /\ tasks[i].kind = "stop"
  /\ \/ tasks[i].pc = "unload" /\ tasks'[i].pc = "done"
     \/ tasks[i].pc = "restore" /\ tasks'[i].pc = "wdelay"

\* createAsync throws in startRecording of task i
CreateFails(i) ==
  /\ tasks[i].kind = "start" /\ tasks[i].pc = "create"
  /\ tasks'[i].notes = <<"StartFailed">>

\* C20: the audio session is back in non-recording mode when stopRecording
\* has ended its teardown, on the success path and when stopAndUnloadAsync
\* throws, and also when createAsync fails in startRecording.
C20_AudioModeRestored ==
  [][\A i \in TaskIds : (StopTeardownEnds(i) \/ CreateFails(i)) =>
        audioMode' = "playback"]_vars

\* ---- C19 ------------------------------------------------------------------
\* the steps that are not presses: a pending platform call, request, delay,
\* timer or utterance completes
Completions ==
  \/ \E i \in TaskIds, o \in PermissionOutcomes : PermissionResult(i, o)
  \/ \E i \in TaskIds, ok \in BOOLEAN : SetRecordingMode(i, ok)
  \/ \E i \in TaskIds, ok \in BOOLEAN : CreateRecording(i, ok)
  \/ \E i \in TaskIds, ok \in BOOLEAN : StopAndUnload(i, ok)
  \/ \E i \in TaskIds, ok \in BOOLEAN : RestoreMode(i, ok)
  \/ \E i \in TaskIds : WhisperWarmupDone(i)
  \/ \E i \in TaskIds, o \in WhisperOutcomes, t \in Transcripts :
       WhisperResponse(i, o, t)
  \/ \E i \in TaskIds : WhisperBackoffDone(i)
  \/ \E i \in TaskIds : GptWarmupDone(i)
  \/ \E i \in TaskIds, o \in GptOutcomes, r \in Responses : GptResponse(i, o, r)
  \/ \E i \in TaskIds : TimeoutFires(i)
  \/ SpeechDone

\* every pending call, request, delay, timer and utterance eventually
\* completes; the user is free to stop pressing
FairSpec == Spec /\ WF_vars(Completions)

\* C19: whenever loading is true (stop was pressed), a state follows in
\* which loading is false and the state is Idle or ResponseReady.
C19_ProcessingEnds == loading ~> (~loading /\ (Idle \/ ResponseReady))

====
